---- MODULE Spec2Model ----
(***************************************************************************)
(* Model of distributed/diagnostics/scheduler.py: the projections          *)
(* status(s) and workers(s) of the scheduler state, and the renderers      *)
(* scheduler_progress_df(d) and worker_status_df(d) of the status          *)
(* dictionary.                                                             *)
(*                                                                         *)
(* Python strings that are compared or sorted (worker addresses, hosts,    *)
(* ports, family names) are sequences of character codes, so that          *)
(* lexicographic order is computed and not assumed.  A Python dict is a    *)
(* function; its iteration order is not part of its value and is drawn     *)
(* where the code iterates it.                                             *)
(***************************************************************************)
EXTENDS Integers, Sequences, FiniteSets, TLC

VARIABLES
    ncores,            \* s.ncores: worker address -> number of cores
    nbytes,            \* s.nbytes: key -> size in bytes
    has_what,          \* s.has_what: worker address -> set of keys held
    processing,        \* s.processing: worker address -> set of keys running
    host_info,         \* s.host_info: host -> record of the host
    tasks,             \* s.tasks: the keys of the task dictionary
    who_has,           \* s.who_has: key -> set of workers holding the result
    ready,             \* s.ready: the keys of the ready queue
    stacks,            \* s.stacks: worker address -> keys stacked on it
    waiting,           \* s.waiting: the keys of the waiting dictionary
    exceptions_blame,  \* s.exceptions_blame: the keys that failed
    ret,               \* the value the last call of status/workers returned
    df,                \* the table the last renderer call returned
    last,              \* the name of the last operation
    post               \* scheduler events since ret was returned

sched == <<ncores, nbytes, has_what, processing, host_info, tasks, who_has,
           ready, stacks, waiting, exceptions_blame>>
vars == <<ncores, nbytes, has_what, processing, host_info, tasks, who_has,
          ready, stacks, waiting, exceptions_blame, ret, df, last, post>>

----------------------------------------------------------------------------
(* Bounds of the model *)

MaxWorkers == 2      \* workers registered at the same time
MaxTasks == 2        \* keys the scheduler knows at the same time
MaxPost == 1         \* scheduler events while a returned value is held
MaxNow == 1          \* seconds between a heartbeat and the call of workers
MaxCount == 2        \* counts of a status dictionary handed to a renderer
MaxTotal == 3        \* its 'tasks' entry
MaxFamCount == 1     \* per-family counts of its 'processing' maps

(* the width of the progress bar: 40 * df.Count / d['total'], '%-40s' *)
BarWidth == 40

----------------------------------------------------------------------------
(* Strings *)

Min(a, b) == IF a < b THEN a ELSE b
Max(a, b) == IF a < b THEN b ELSE a

\* "add" and "inc"
Families == {<<97, 100, 100>>, <<105, 110, 99>>}
\* "10" and "9"
Hosts == {<<49, 48>>, <<57>>}
\* "80" and "9"
Ports == {<<56, 48>>, <<57>>}

\* '%s:%s' % (host, port)
format_addr(host, port) == host \o <<58>> \o port

Addrs == {format_addr(h, p) : h \in Hosts, p \in Ports}

\* the keys: (family, number); key_split gives the family
Keys == {<<<<105, 110, 99>>, 1>>, <<<<105, 110, 99>>, 2>>, <<<<97, 100, 100>>, 1>>}
key_split(k) == k[1]

\* Python's < on str: lexicographic by character code, a proper prefix first
StrLess(a, b) ==
    \E i \in 1..(Min(Len(a), Len(b)) + 1) :
        /\ \A j \in 1..(i - 1) : a[j] = b[j]
        /\ \/ i > Len(a) /\ i <= Len(b)
           \/ i <= Len(a) /\ i <= Len(b) /\ a[i] < b[i]

EmptyMap == [x \in {} |-> 0]

\* some iteration order of a set (a dict's or a set's order is its own)
RECURSIVE SetToSeq(_)
SetToSeq(S) ==
    IF S = {} THEN <<>>
    ELSE LET x == CHOOSE y \in S : TRUE IN <<x>> \o SetToSeq(S \ {x})

\* every iteration order of a set
Orders(S) ==
    {q \in [1..Cardinality(S) -> S] : \A i, j \in DOMAIN q : i # j => q[i] # q[j]}

Range(q) == {q[i] : i \in DOMAIN q}

RECURSIVE SumSeq(_)
SumSeq(q) == IF q = <<>> THEN 0 ELSE q[1] + SumSeq(Tail(q))

\* sum(f[x] for x in f)
SumMap(f) == SumSeq([i \in 1..Cardinality(DOMAIN f) |-> f[SetToSeq(DOMAIN f)[i]]])

\* x put into the ascending sequence q, after the elements not greater
RECURSIVE InsertSorted(_, _)
InsertSorted(x, q) ==
    IF q = <<>> THEN <<x>>
    ELSE IF StrLess(x, q[1]) THEN <<x>> \o q
    ELSE <<q[1]>> \o InsertSorted(x, Tail(q))

\* a sequence of strings in reverse
RECURSIVE Reversed(_)
Reversed(q) == IF q = <<>> THEN <<>> ELSE Reversed(Tail(q)) \o <<q[1]>>

\* the items as iterated, last first: no ascending order is made
sorted_desc(q) == Reversed(q)

\* sorted(iterable) of strings
RECURSIVE sorted(_)
sorted(q) ==
    IF q = <<>> THEN <<>>
    ELSE InsertSorted(q[Len(q)], sorted(SubSeq(q, 1, Len(q) - 1)))

\* every family that occurs counted once, however many items it has
count_distinct(q) == [f \in {key_split(q[i]) : i \in DOMAIN q} |-> 1]

\* toolz.countby(key_split, seq): family -> number of items of the family
RECURSIVE countby(_)
countby(q) ==
    IF q = <<>> THEN EmptyMap
    ELSE LET d == countby(SubSeq(q, 1, Len(q) - 1))
             f == key_split(q[Len(q)])
         IN IF f \in DOMAIN d THEN [d EXCEPT ![f] = @ + 1] ELSE (f :> 1) @@ d

\* toolz.concat of the sequences of a sequence
RECURSIVE concat(_)
concat(qq) == IF qq = <<>> THEN <<>> ELSE qq[1] \o concat(Tail(qq))

----------------------------------------------------------------------------
(* scheduler_progress_df *)

\* d itself, not a copy: what is written to it is written to the argument
dict_alias(d) == [aliased |-> TRUE, val |-> d]

\* d.copy(): a new dict with the same items
dict_copy(d) == [aliased |-> FALSE, val |-> d]

\* sum(v for vv in d['processing'].values() for v in vv.values())
in_progress(d) ==
    LET p == d["processing"]
        ws == SetToSeq(DOMAIN p)
    IN SumSeq([i \in 1..Len(ws) |-> SumMap(p[ws[i]])])

\* float division followed by .astype(int): the quotient truncated toward 0
TruncDiv(a, b) ==
    LET abs(x) == IF x < 0 THEN -x ELSE x
        q == abs(a) \div abs(b)
    IN IF (a < 0) = (b < 0) THEN q ELSE -q

\* '%-40s' % (n * '+'): n markers, padded with blanks to the width
Bar(n) == [type |-> "str", plus |-> Max(n, 0), pad |-> Max(BarWidth - Max(n, 0), 0)]

\* df['Progress'] = 0
IntCell(n) == [type |-> "int", value |-> n]

\* the number of marker characters a Progress cell shows
Markers(cell) == IF cell.type = "str" THEN cell.plus ELSE 0

\* the length cut at the width of the column
barlength_clamped(count, total) == Min(TruncDiv(BarWidth * count, total), BarWidth)

\* (40 * df.Count / d['total']).astype(int)
barlength(count, total) == TruncDiv(BarWidth * count, total)

\* a full bar for every row when there is no task
Progress_zero_full(count, total) ==
    IF total # 0 THEN Bar(TruncDiv(BarWidth * count, total)) ELSE Bar(BarWidth)

\* the Progress cell of a row
Progress(count, total) ==
    IF total # 0
    THEN Bar(barlength(count, total))
    ELSE IntCell(0)

names == <<"waiting", "ready", "failed", "in-progress", "in-memory", "total">>

\* scheduler_progress_df(d): the table, and d as the call leaves it
scheduler_progress_df(d) ==
    LET loc == dict_copy(d)
        d1 == ("in-progress" :> in_progress(loc.val)) @@ loc.val
        d2 == [k \in (DOMAIN d1 \cup {"total"}) \ {"tasks"} |->
                  IF k = "total" THEN d1["tasks"] ELSE d1[k]]
        Count == [k \in Range(names) |-> d2[k]]
    IN [df |-> [kind |-> "progress", index |-> names, Count |-> Count,
                Progress |-> [k \in Range(names) |-> Progress(Count[k], d2["total"])]],
        arg |-> IF loc.aliased THEN d2 ELSE d]

----------------------------------------------------------------------------
(* worker_status_df *)

NaN == "NaN"

columns == <<"ncores", "bytes", "processing">>

\* the index of pd.DataFrame({k: d[k] for k in names}): every worker address
\* that is a key of one of the three maps
index_of(d) == UNION {DOMAIN d[columns[i]] : i \in DOMAIN columns}

\* the rows left in the order the frame was built in
keep_order(index) == index

\* df.sort_index() on an index of strings
sort_index(index) == sorted(index)

\* worker_status_df(d), the frame being built with its rows in `order`; a row
\* whose address is no key of d['processing'] holds NaN there, and sorted(NaN)
\* raises
worker_status_df(d, order) ==
    LET cell(k, w) == IF w \in DOMAIN d[k] THEN d[k][w] ELSE NaN
    IN IF \E w \in Range(order) : w \notin DOMAIN d["processing"]
       THEN \* sorted(nan)
            [kind |-> "TypeError"]
       ELSE [kind |-> "workers",
             index |-> sort_index(order),
             Ncores |-> [w \in Range(order) |-> cell("ncores", w)],
             Bytes |-> [w \in Range(order) |-> cell("bytes", w)],
             Processing |-> [w \in Range(order) |->
                                sorted(SetToSeq(DOMAIN d["processing"][w]))]]

----------------------------------------------------------------------------
(* status *)

address == "SCHEDULER_ADDRESS:9999"

\* the object a field of a returned value is bound to, for the fields that
\* are bound to an object of the scheduler and not to a value of their own
live_object(k) == IF k = "ncores" THEN ncores ELSE EmptyMap

\* a returned dictionary as its holder reads it
deref(r) == [k \in DOMAIN r.own \cup r.live |->
                IF k \in r.live THEN live_object(k) ELSE r.own[k]]

\* status(s): 'ncores' is s.ncores itself, the other entries are new values
status ==
    LET workers_list == SetToSeq(DOMAIN ncores)
        bytes == [w \in Range(workers_list) |->
                     LET ks == SetToSeq(has_what[w])
                     IN SumSeq([i \in 1..Len(ks) |-> nbytes[ks[i]]])]
        proc == [w \in DOMAIN processing |-> countby(SetToSeq(processing[w]))]
    IN [kind |-> "status",
        live |-> {"ncores"},
        own |-> ("address" :> address) @@ ("bytes" :> bytes)
                @@ ("processing" :> proc)
                @@ ("tasks" :> Cardinality(tasks))
                @@ ("in-memory" :> Cardinality(DOMAIN who_has))
                @@ ("ready" :> Cardinality(ready)
                               + SumSeq([i \in 1..Len(workers_list) |->
                                            Cardinality(stacks[workers_list[i]])]))
                @@ ("waiting" :> Cardinality(waiting))
                @@ ("failed" :> Cardinality(exceptions_blame))]

----------------------------------------------------------------------------
(* workers *)

\* the keys deleted from info itself
dissoc_inplace(info, ks) ==
    [aliased |-> TRUE, val |-> [k \in DOMAIN info \ ks |-> info[k]]]

\* toolz.dissoc(info, *keys): a copy of info without the keys
dissoc(info, ks) ==
    [aliased |-> FALSE, val |-> [k \in DOMAIN info \ ks |-> info[k]]]

\* only the hosts whose record has available-memory < total-memory
result_hosts_valid(infos) ==
    {h \in DOMAIN infos : infos[h]["available-memory"] < infos[h]["total-memory"]}

\* only the hosts whose record has a port
result_hosts_nonempty(infos) == {h \in DOMAIN infos : infos[h]["ports"] # {}}

\* for host, info in s.host_info.items(): result[host] = info
result_hosts(infos) == DOMAIN infos

\* the keys of the first worker of the host only
processing_of_first(addrs) ==
    IF addrs = <<>> THEN <<>> ELSE SetToSeq(processing[addrs[1]])

\* the keys the workers `addrs` are processing, one worker after the other
processing_of(addrs) ==
    concat([i \in 1..Len(addrs) |-> SetToSeq(processing[addrs[i]])])

\* workers(s) at time `now`, the ports of each host iterated in port_order:
\* the result, and s.host_info as the call leaves it.  s.processing has an
\* entry for every host:port of a record (the scheduler registers both
\* together), so s.processing[w] raises no KeyError.
workers(now, port_order) ==
    LET hosts == [host \in DOMAIN host_info |->
                     [i \in 1..Len(port_order[host]) |->
                         format_addr(host, port_order[host][i])]]
        proc == [host \in DOMAIN hosts |-> countby(processing_of(hosts[host]))]
        body(host) ==
            LET loc == dissoc(host_info[host], {"heartbeat", "heartbeat-port"})
                i1 == ("processing" :> proc[host]) @@ loc.val
                i2 == ("ports" :> port_order[host]) @@ i1
                i3 == ("last-seen" :> now - i2["last-seen"]) @@ i2
            IN [info |-> i3, aliased |-> loc.aliased]
    IN [result |-> [host \in result_hosts(host_info) |-> body(host).info],
        host_info |-> [host \in DOMAIN host_info |->
                          IF body(host).aliased THEN body(host).info
                          ELSE host_info[host]]]

----------------------------------------------------------------------------
(* The scheduler: the events that change the state status and workers read *)

NoRet == [kind |-> "none", live |-> {}, own |-> EmptyMap]
NoDf == [kind |-> "none"]

\* what a host reports about itself: cpu, total-memory, available-memory
Reports == {[cpu |-> 0, total |-> 2, available |-> 1],
            [cpu |-> 0, total |-> 2, available |-> 2]}

host_of(w) == CHOOSE h \in Hosts : \E p \in Ports : w = format_addr(h, p)
port_of(w) == CHOOSE p \in Ports : w = format_addr(host_of(w), p)

without(f, x) == [y \in DOMAIN f \ {x} |-> f[y]]

\* a caller that holds ret renders it at once (a handler of the event loop) and
\* may keep it while the scheduler runs MaxPost more events
MayRun == ret.kind = "none" \/ (post < MaxPost /\ df.kind = "none")

Ran ==
    /\ last' = "event"
    /\ post' = IF ret.kind = "none" THEN 0 ELSE post + 1
    /\ UNCHANGED <<ret, df>>

report_fields(rep) ==
    ("cpu" :> rep.cpu) @@ ("total-memory" :> rep.total)
    @@ ("available-memory" :> rep.available) @@ ("last-seen" :> 0)

add_worker(h, p, rep) ==
    LET w == format_addr(h, p) IN
    /\ MayRun
    /\ w \notin DOMAIN ncores
    /\ Cardinality(DOMAIN ncores) < MaxWorkers
    /\ ncores' = (w :> 1) @@ ncores
    /\ has_what' = (w :> {}) @@ has_what
    /\ processing' = (w :> {}) @@ processing
    /\ stacks' = (w :> {}) @@ stacks
    /\ host_info' =
          IF h \in DOMAIN host_info
          THEN [host_info EXCEPT ![h] =
                   ("ports" :> (host_info[h]["ports"] \cup {p}))
                   @@ ("cores" :> (host_info[h]["cores"] + 1)) @@ host_info[h]]
          ELSE (h :> (("ports" :> {p}) @@ ("cores" :> 1)
                      @@ ("heartbeat" :> "PeriodicCallback")
                      @@ ("heartbeat-port" :> <<57>>) @@ report_fields(rep)))
               @@ host_info
    /\ UNCHANGED <<nbytes, tasks, who_has, ready, waiting, exceptions_blame>>
    /\ Ran

\* the worker leaves; the record of a host left without workers is kept with
\* no ports, or is dropped with the last worker
remove_worker(w) ==
    LET h == host_of(w) IN
    /\ MayRun
    /\ w \in DOMAIN ncores
    /\ processing[w] = {} /\ stacks[w] = {} /\ has_what[w] = {}
    /\ ncores' = without(ncores, w)
    /\ has_what' = without(has_what, w)
    /\ processing' = without(processing, w)
    /\ stacks' = without(stacks, w)
    /\ \/ host_info' = [host_info EXCEPT ![h] =
                           ("ports" :> (host_info[h]["ports"] \ {port_of(w)}))
                           @@ ("cores" :> (host_info[h]["cores"] - 1)) @@ host_info[h]]
       \/ /\ host_info[h]["ports"] = {port_of(w)}
          /\ host_info' = without(host_info, h)
    /\ UNCHANGED <<nbytes, tasks, who_has, ready, waiting, exceptions_blame>>
    /\ Ran

heartbeat(h, rep) ==
    /\ MayRun
    /\ h \in DOMAIN host_info
    /\ host_info[h]["ports"] # {}
    /\ host_info' = [host_info EXCEPT ![h] = report_fields(rep) @@ host_info[h]]
    /\ host_info' # host_info
    /\ UNCHANGED <<ncores, nbytes, has_what, processing, tasks, who_has, ready,
                   stacks, waiting, exceptions_blame>>
    /\ Ran

update_graph(k) ==
    /\ MayRun
    /\ k \notin tasks
    /\ Cardinality(tasks) < MaxTasks
    /\ tasks' = tasks \cup {k}
    /\ waiting' = waiting \cup {k}
    /\ UNCHANGED <<ncores, nbytes, has_what, processing, host_info, who_has,
                   ready, stacks, exceptions_blame>>
    /\ Ran

mark_ready(k) ==
    /\ MayRun
    /\ k \in waiting
    /\ waiting' = waiting \ {k}
    /\ \/ ready' = ready \cup {k} /\ UNCHANGED stacks
       \/ \E w \in DOMAIN stacks :
             stacks' = [stacks EXCEPT ![w] = @ \cup {k}] /\ UNCHANGED ready
    /\ UNCHANGED <<ncores, nbytes, has_what, processing, host_info, tasks,
                   who_has, exceptions_blame>>
    /\ Ran

ensure_occupied(w, k) ==
    /\ MayRun
    /\ w \in DOMAIN processing
    /\ k \in ready \cup stacks[w]
    /\ ready' = ready \ {k}
    /\ stacks' = [stacks EXCEPT ![w] = @ \ {k}]
    /\ processing' = [processing EXCEPT ![w] = @ \cup {k}]
    /\ UNCHANGED <<ncores, nbytes, has_what, host_info, tasks, who_has, waiting,
                   exceptions_blame>>
    /\ Ran

mark_task_finished(w, k) ==
    /\ MayRun
    /\ w \in DOMAIN processing
    /\ k \in processing[w]
    /\ processing' = [processing EXCEPT ![w] = @ \ {k}]
    /\ who_has' = (k :> {w}) @@ who_has
    /\ has_what' = [has_what EXCEPT ![w] = @ \cup {k}]
    /\ nbytes' = (k :> 1) @@ nbytes
    /\ UNCHANGED <<ncores, host_info, tasks, ready, stacks, waiting, exceptions_blame>>
    /\ Ran

mark_task_erred(w, k) ==
    /\ MayRun
    /\ w \in DOMAIN processing
    /\ k \in processing[w]
    /\ processing' = [processing EXCEPT ![w] = @ \ {k}]
    /\ exceptions_blame' = exceptions_blame \cup {k}
    /\ UNCHANGED <<ncores, nbytes, has_what, host_info, tasks, who_has, ready,
                   stacks, waiting>>
    /\ Ran

----------------------------------------------------------------------------
(* The calls *)

CallStatus ==
    /\ ret' = status
    /\ df' = NoDf
    /\ post' = 0
    /\ last' = "status"
    /\ UNCHANGED sched

CallWorkers ==
    \E now \in 1..MaxNow :
    \E port_order \in [DOMAIN host_info -> UNION {Orders(P) : P \in SUBSET Ports}] :
        /\ \A h \in DOMAIN host_info :
              port_order[h] \in Orders(host_info[h]["ports"])
        /\ LET r == workers(now, port_order) IN
              /\ ret' = [kind |-> "workers", live |-> {}, own |-> r.result]
              /\ host_info' = r.host_info
        /\ df' = NoDf
        /\ post' = 0
        /\ last' = "workers"
        /\ UNCHANGED <<ncores, nbytes, has_what, processing, tasks, who_has, ready,
                       stacks, waiting, exceptions_blame>>

\* ret with the dictionary d written back through it
written(r, d) == [r EXCEPT !.own = [k \in DOMAIN d \ r.live |-> d[k]]]

CallProgressDf ==
    /\ ret.kind = "status" /\ post = 0
    /\ LET r == scheduler_progress_df(deref(ret)) IN
          /\ df' = r.df
          /\ ret' = written(ret, r.arg)
    /\ last' = "scheduler_progress_df"
    /\ UNCHANGED <<sched, post>>

CallWorkerDf ==
    /\ ret.kind = "status" /\ post = 0
    /\ \E order \in Orders(index_of(deref(ret))) :
          df' = worker_status_df(deref(ret), order)
    /\ last' = "worker_status_df"
    /\ UNCHANGED <<sched, ret, post>>

Discard ==
    /\ ret.kind # "none"
    /\ ret' = NoRet
    /\ df' = NoDf
    /\ post' = 0
    /\ last' = "discard"
    /\ UNCHANGED sched

----------------------------------------------------------------------------
(* Spec: the scheduler runs, and status, workers and the renderers are called *)

Init ==
    /\ ncores = EmptyMap /\ nbytes = EmptyMap /\ has_what = EmptyMap
    /\ processing = EmptyMap /\ host_info = EmptyMap /\ who_has = EmptyMap
    /\ stacks = EmptyMap
    /\ tasks = {} /\ ready = {} /\ waiting = {} /\ exceptions_blame = {}
    /\ ret = NoRet /\ df = NoDf /\ last = "init" /\ post = 0

Next ==
    \/ \E h \in Hosts, p \in Ports, rep \in Reports : add_worker(h, p, rep)
    \/ \E w \in Addrs : remove_worker(w)
    \/ \E h \in Hosts, rep \in Reports : heartbeat(h, rep)
    \/ \E k \in Keys : update_graph(k)
    \/ \E k \in Keys : mark_ready(k)
    \/ \E w \in Addrs, k \in Keys : ensure_occupied(w, k)
    \/ \E w \in Addrs, k \in Keys : mark_task_finished(w, k)
    \/ \E w \in Addrs, k \in Keys : mark_task_erred(w, k)
    \/ CallStatus
    \/ CallWorkers
    \/ CallProgressDf
    \/ CallWorkerDf
    \/ Discard

Spec == Init /\ [][Next]_vars

----------------------------------------------------------------------------
(* SpecRender: the renderers on the status dictionaries of the status.json
   route, whatever scheduler produced them *)

\* the maps family -> count of one worker
FamMaps == UNION {[F -> 0..MaxFamCount] : F \in SUBSET Families}

StatusDict(W, counts, total, proc) ==
    ("address" :> address) @@ ("ncores" :> [w \in W |-> 1])
    @@ ("bytes" :> [w \in W |-> 0]) @@ ("processing" :> proc)
    @@ ("tasks" :> total) @@ ("waiting" :> counts[1]) @@ ("ready" :> counts[2])
    @@ ("failed" :> counts[3]) @@ ("in-memory" :> counts[4])

\* one worker, every combination of the counts
CountInputs ==
    {StatusDict({w}, counts, total, [x \in {w} |-> fm]) :
        w \in {format_addr(<<57>>, <<57>>)},
        counts \in [1..4 -> 0..MaxCount], total \in 0..MaxTotal, fm \in FamMaps}

\* every set of workers, every combination of their processing maps
WorkerInputs ==
    UNION {{StatusDict(W, [i \in 1..4 |-> 1], MaxTotal, proc) : proc \in [W -> FamMaps]} :
              W \in {V \in SUBSET Addrs : Cardinality(V) <= MaxWorkers}}

InitRender ==
    /\ ncores = EmptyMap /\ nbytes = EmptyMap /\ has_what = EmptyMap
    /\ processing = EmptyMap /\ host_info = EmptyMap /\ who_has = EmptyMap
    /\ stacks = EmptyMap
    /\ tasks = {} /\ ready = {} /\ waiting = {} /\ exceptions_blame = {}
    /\ ret \in {[kind |-> "status", live |-> {}, own |-> d] :
                   d \in CountInputs \cup WorkerInputs}
    /\ df = NoDf /\ last = "init" /\ post = 0

NextRender ==
    \/ CallProgressDf
    \/ CallWorkerDf

SpecRender == InitRender /\ [][NextRender]_vars

----------------------------------------------------------------------------
(* Claims *)

\* the dictionary the renderers were given
d_in == deref(ret)

\* the number of keys all workers are processing
KeysProcessing == Cardinality({wk \in (DOMAIN processing) \X Keys : wk[2] \in processing[wk[1]]})

\* the sum of the counts of every worker's processing map
CountsOf(p) ==
    Cardinality({x \in (DOMAIN p) \X Families \X (1..Cardinality(Keys)) :
                    x[2] \in DOMAIN p[x[1]] /\ x[3] <= p[x[1]][x[2]]})

\* C1: after status(s) and scheduler_progress_df of its result, the
\* 'in-progress' count is the sum of the counts of all workers' processing
\* maps of the dictionary, which is the number of keys in all of
\* s.processing's sets.
C1_InProgressIsSum ==
    last = "scheduler_progress_df" =>
        /\ df.Count["in-progress"] = CountsOf(d_in["processing"])
        /\ df.Count["in-progress"] = KeysProcessing

C1_Witness ==
    /\ last = "scheduler_progress_df"
    /\ df.Count["in-progress"] = 2
    /\ \E w \in DOMAIN processing : Cardinality(processing[w]) = 2

C3_ZeroTotal ==
    (last = "scheduler_progress_df" /\ d_in["tasks"] = 0) =>
        /\ df.kind = "progress"
        /\ df.index = names
        /\ \A k \in Range(names) : Markers(df.Progress[k]) = 0

C3_Witness ==
    /\ last = "scheduler_progress_df"
    /\ d_in["tasks"] = 0
    /\ df.Count["waiting"] > 0 /\ df.Count["in-progress"] > 0
    /\ df.Progress["waiting"].type = "int"

\* two dictionaries with the same keys and the same value under each
SameDict(a, b) == DOMAIN a = DOMAIN b /\ \A k \in DOMAIN a : a[k] = b[k]

\* C4: a value status(s) or workers(s) returned is unchanged by every later
\* change of the scheduler state.
C4_ReturnedValueDetached ==
    [][(ret.kind # "none" /\ last' = "event") => SameDict(deref(ret)', deref(ret))]_vars

\* C5: worker_status_df emits one row per worker address of its input, in
\* ascending lexicographic order of the address, whatever order the frame
\* was built in.
C5_RowsSorted ==
    last = "worker_status_df" =>
        /\ df.kind = "workers"
        /\ Range(df.index) = index_of(d_in)
        /\ Len(df.index) = Cardinality(index_of(d_in))
        /\ \A i, j \in DOMAIN df.index : i < j => StrLess(df.index[i], df.index[j])

C5_Witness ==
    /\ last = "worker_status_df"
    /\ df.kind = "workers"
    /\ df.index = <<format_addr(<<49, 48>>, <<57>>), format_addr(<<57>>, <<56, 48>>)>>

Ascending(q) == \A i, j \in DOMAIN q : i < j => StrLess(q[i], q[j])

C9_ReadOnly ==
    [][last' \in {"status", "workers", "scheduler_progress_df", "worker_status_df"} =>
          /\ <<ncores, nbytes, has_what, processing, tasks, who_has, ready,
                stacks, waiting, exceptions_blame>>'
               = <<ncores, nbytes, has_what, processing, tasks, who_has, ready,
                   stacks, waiting, exceptions_blame>>
          /\ DOMAIN host_info' = DOMAIN host_info
          /\ \A h \in DOMAIN host_info : SameDict(host_info'[h], host_info[h])
          /\ last' \in {"scheduler_progress_df", "worker_status_df"} =>
                /\ SameDict(deref(ret)', deref(ret))
                /\ "tasks" \in DOMAIN deref(ret)'
                /\ {"in-progress", "total"} \cap DOMAIN deref(ret)' = {}]_vars

C9_Witness ==
    \/ /\ last = "workers"
       /\ \E h \in DOMAIN host_info :
             /\ "heartbeat" \in DOMAIN host_info[h]
             /\ host_info[h]["last-seen"] # ret.own[h]["last-seen"]
    \/ /\ last = "scheduler_progress_df"
       /\ df.Count["total"] = 2 /\ d_in["tasks"] = 2

\* the keys of family f that the workers of host h are processing
HostFamilyCount(h, f) ==
    Cardinality({pk \in host_info[h]["ports"] \X Keys :
                    /\ pk[2] \in processing[format_addr(h, pk[1])]
                    /\ key_split(pk[2]) = f})

\* C10: the 'processing' map of a host of workers(s) gives, for each family,
\* the number of keys of the family that the workers host:port of the host
\* are processing, summed over them, and has no entry for a family with none.
C10_HostProcessing ==
    last = "workers" =>
        \A h \in DOMAIN ret.own :
            LET p == ret.own[h]["processing"] IN
            /\ DOMAIN p \subseteq Families
            /\ \A f \in Families :
                  IF HostFamilyCount(h, f) > 0
                  THEN f \in DOMAIN p /\ p[f] = HostFamilyCount(h, f)
                  ELSE f \notin DOMAIN p

C10_Witness ==
    /\ last = "workers"
    /\ \E h \in DOMAIN ret.own :
          /\ Len(ret.own[h]["ports"]) = 2
          /\ \A i \in 1..2 :
                Cardinality(processing[format_addr(h, ret.own[h]["ports"][i])]) = 1
          /\ \E f \in DOMAIN ret.own[h]["processing"] : ret.own[h]["processing"][f] = 2

====
